---- MODULE Spec2Model ----
(***************************************************************************)
(* Model of the qmuloai chat client (src/src/main.rs): the session loop of *)
(* main, the message log of ChatContext, the command registry, the         *)
(* external similarity index and the three built-in command handlers.      *)
(***************************************************************************)
EXTENDS Integers, Sequences, FiniteSets, TLC

(***************************************************************************)
(* Bounds                                                                  *)
(***************************************************************************)
\* longest message log the session is driven to
MaxMsgs == 3
\* longest line the key events of one read_message call build
MaxLen == 4

(***************************************************************************)
(* Inputs                                                                  *)
(***************************************************************************)
\* the lines read_message captures in a session: empty, plain text, the
\* sentinel "/" alone, and the sentinel followed by text
Lines == {<< >>, <<"a">>, <<"/">>, <<"/", "a">>}

\* the texts the backend can answer with
Outputs == {<<"x">>, <<"y">>}

\* what one POST to the backend can produce: a well-formed ServerResponse, a
\* transport failure (send_json fails), or a body that is not a ServerResponse
BackendResponses ==
    {[kind |-> "ok", output |-> o] : o \in Outputs}
        \cup {[kind |-> "unreachable", output |-> << >>],
              [kind |-> "malformed", output |-> << >>]}

(***************************************************************************)
(* Messages                                                                *)
(***************************************************************************)
Role == {"User", "System", "Assistant"}

user(content) == [role |-> "User", content |-> content]

system(content) == [role |-> "System", content |-> content]

assistant(content) == [role |-> "Assistant", content |-> content]

(***************************************************************************)
(* Input classification                                                    *)
(***************************************************************************)
starts_with_slash(line) == Len(line) >= 1 /\ line[1] = "/"

\* the classification with the slice forgotten: a Command keeps its sentinel
Classify_keep_sentinel(line) ==
    IF starts_with_slash(line)
    THEN [type |-> "Command", text |-> line]
    ELSE [type |-> "Prompt", text |-> line]

\* the tail of read_message: a line that starts with the sentinel is a
\* Command carrying line[1..], any other line is a Prompt carrying the line
Classify(line) ==
    IF starts_with_slash(line)
    THEN [type |-> "Command", text |-> SubSeq(line, 2, Len(line))]
    ELSE [type |-> "Prompt", text |-> line]

\* what event::read() can do to read_message: deliver the line or fail
ReadResults ==
    {[ok |-> TRUE, line |-> l] : l \in Lines} \cup {[ok |-> FALSE, line |-> << >>]}

into_string(input) == input.text

(***************************************************************************)
(* ChatContext: the message log                                            *)
(***************************************************************************)
ChatContext_new(sys_prompt) == << system(sys_prompt) >>

\* Vec::pop: removes the last element if there is one
pop(ctx) == IF Len(ctx) = 0 THEN ctx ELSE SubSeq(ctx, 1, Len(ctx) - 1)

\* send_context with the push moved ahead of the error check: a failed call
\* leaves an empty assistant message behind
send_context_push_first(ctx, resp) ==
    IF resp.kind = "ok"
    THEN [result |-> "Ok", context |-> Append(ctx, assistant(resp.output)),
          posted |-> TRUE, body |-> ctx]
    ELSE [result |-> "NetworkError", context |-> Append(ctx, assistant(<< >>)),
          posted |-> TRUE, body |-> ctx]

\* send_context: POST the whole log; only a well-formed response appends
send_context(ctx, resp) ==
    IF resp.kind = "ok"
    THEN [result |-> "Ok", context |-> Append(ctx, assistant(resp.output)),
          posted |-> TRUE, body |-> ctx]
    ELSE [result |-> "NetworkError", context |-> ctx, posted |-> TRUE, body |-> ctx]

\* send_user_message with its two statements swapped: the log is posted
\* first and the user's message pushed after the answer
send_user_message_send_first(ctx, message, resp) ==
    LET sent == send_context(ctx, resp)
    IN  [sent EXCEPT !.context = Append(sent.context, user(message))]

\* send_user_message: push the user's message, then send_context
send_user_message(ctx, message, resp) ==
    send_context(Append(ctx, user(message)), resp)

(***************************************************************************)
(* Command registry and similarity index                                   *)
(***************************************************************************)
\* the built-in commands, as initialize_commands inserts them
retry_command == [id |-> "retry", description |-> "delete the last assistant response"]

hint_command == [id |-> "hint", description |-> "add a message in the system role"]

system_command == [id |-> "system", description |-> "Overwrite the system prompt"]

\* BTreeMap::new
NoCommands == [k \in {} |-> retry_command]

\* BTreeMap::insert
insert(map, key, command) ==
    [k \in DOMAIN map \cup {key} |-> IF k = key THEN command ELSE map[k]]

\* BTreeMap iterates in ascending key order; the keys in use, ascending
KeyOrder == <<"hint", "retry", "system">>

RECURSIVE iter_from(_, _)
iter_from(map, i) ==
    IF i > Len(KeyOrder) THEN << >>
    ELSE IF KeyOrder[i] \in DOMAIN map
         THEN <<map[KeyOrder[i]]>> \o iter_from(map, i + 1)
         ELSE iter_from(map, i + 1)

\* commands.iter(): the commands in key order
iter(map) == iter_from(map, 1)

\* the text embedded for a command, and the text embedded for a query
description_text(command) == <<command.id, ": ", command.description>>

query_text(command) == <<"query: ", command>>

\* the embedding provider is opaque: one vector per text, told apart by text
embed(text) == [vec |-> text]

\* serde_json::to_value(command): id and description, the handler skipped
to_payload(command) == [id |-> command.id, description |-> command.description]

\* the points with the command looked up a second time from the other end of
\* the map: the payload beside a vector is that of another command
points_of_misaligned(map) ==
    [n \in 1..Len(iter(map)) |->
        [vector |-> embed(description_text(iter(map)[n])),
         payload |-> to_payload(iter(map)[Len(iter(map)) + 1 - n])]]

\* the points initialize_commands upserts: numeric id idx + 1, the vector of
\* the idx-th description text, the payload of the idx-th command
points_of(map) ==
    [n \in 1..Len(iter(map)) |->
        [vector |-> embed(description_text(iter(map)[n])),
         payload |-> to_payload(iter(map)[n])]]

\* upsert_points: points with the same numeric id are replaced, others kept
upsert(old, new) ==
    [n \in DOMAIN old \cup DOMAIN new |-> IF n \in DOMAIN new THEN new[n] ELSE old[n]]

NoPoints == [n \in {} |-> [vector |-> embed(<< >>), payload |-> to_payload(retry_command)]]

\* a point left by an earlier version whose command is no longer registered
ghost_point ==
    [vector |-> embed(<<"ghost", ": ", "removed">>),
     payload |-> [id |-> "ghost", description |-> "removed"]]

\* a point another writer left in the collection, its payload without an id
foreign_point ==
    [vector |-> embed(<<"other">>), payload |-> [description |-> "other"]]

\* the registry initialize_commands builds
registered ==
    insert(insert(insert(NoCommands, "retry", retry_command),
                  "hint", hint_command), "system", system_command)

\* the collection "commands" as a fresh process can find it: absent, left by
\* an earlier run of this version, or holding a further stale or foreign point
InitialIndexes ==
    {[exists |-> FALSE, points |-> NoPoints],
     [exists |-> TRUE, points |-> points_of(registered)],
     [exists |-> TRUE, points |-> (4 :> ghost_point) @@ (5 :> foreign_point)]}

\* ScoredPoint::get: the payload value under key, Null when there is none
Null == [null |-> TRUE]

get(point, key) ==
    IF key \in DOMAIN point.payload THEN [str |-> point.payload[key]] ELSE Null

\* the answers a nearest-neighbour query can give: a failure, or a ranked
\* list of which run_command reads element 0 only; the ranking is the
\* index's own, and the list is empty when the index has no match to offer
QueryResponses(idx) ==
    {[ok |-> FALSE, result |-> << >>], [ok |-> TRUE, result |-> << >>]}
        \cup {[ok |-> TRUE, result |-> <<idx.points[n]>>] : n \in DOMAIN idx.points}

(***************************************************************************)
(* Command handlers                                                        *)
(***************************************************************************)
\* every handler and send yields: the Result, the log afterwards, whether a
\* request was posted to the backend and the body of that request

\* retry: pop the last message, then send_context
retry_handler(ctx, resp) == send_context(pop(ctx), resp)

\* hint taking the text of whatever was read (into_string) instead of
\* matching on its type: a Command line is pushed like a Prompt
hint_handler_into_string(ctx, read) ==
    IF ~read.ok THEN [result |-> "IoError", context |-> ctx, posted |-> FALSE, body |-> << >>]
    ELSE [result |-> "Ok", context |-> Append(ctx, system(into_string(Classify(read.line)))),
          posted |-> FALSE, body |-> << >>]

\* hint: read a line; a Prompt is pushed as a System message
hint_handler(ctx, read) ==
    IF ~read.ok THEN [result |-> "IoError", context |-> ctx, posted |-> FALSE, body |-> << >>]
    ELSE IF Classify(read.line).type = "Prompt"
    THEN [result |-> "Ok", context |-> Append(ctx, system(Classify(read.line).text)),
          posted |-> FALSE, body |-> << >>]
    ELSE [result |-> "NestedCommand", context |-> ctx, posted |-> FALSE, body |-> << >>]

\* system with the index off: the content of the last element is overwritten
system_handler_last(ctx, read) ==
    IF ~read.ok THEN [result |-> "IoError", context |-> ctx, posted |-> FALSE, body |-> << >>]
    ELSE IF Classify(read.line).type = "Prompt"
    THEN IF Len(ctx) = 0
         THEN [result |-> "Panic", context |-> ctx, posted |-> FALSE, body |-> << >>]
         ELSE [result |-> "Ok",
               context |-> [ctx EXCEPT ![Len(ctx)].content = Classify(read.line).text],
               posted |-> FALSE, body |-> << >>]
    ELSE [result |-> "NestedCommand", context |-> ctx, posted |-> FALSE, body |-> << >>]

\* system: read a line; a Prompt overwrites the content of element 0, and
\* get_mut(0).unwrap() panics when the log is empty
system_handler(ctx, read) ==
    IF ~read.ok THEN [result |-> "IoError", context |-> ctx, posted |-> FALSE, body |-> << >>]
    ELSE IF Classify(read.line).type = "Prompt"
    THEN IF Len(ctx) = 0
         THEN [result |-> "Panic", context |-> ctx, posted |-> FALSE, body |-> << >>]
         ELSE [result |-> "Ok",
               context |-> [ctx EXCEPT ![1].content = Classify(read.line).text],
               posted |-> FALSE, body |-> << >>]
    ELSE [result |-> "NestedCommand", context |-> ctx, posted |-> FALSE, body |-> << >>]

\* the lookup taking the command out of the map to own its handler
registry_after_remove(registry, id) ==
    [k \in DOMAIN registry \ {id} |-> registry[k]]

\* the registry once run_command has looked id up: commands.get borrows the
\* command and f.clone() shares its handler, so the map is as it was
registry_after(registry, id) == registry

\* the handler stored under a registry key
handler(id, ctx, resp, read) ==
    CASE id = "retry" -> retry_handler(ctx, resp)
      [] id = "hint" -> hint_handler(ctx, read)
      [] id = "system" -> system_handler(ctx, read)

\* run_command up to the registry lookup: the id of the handler to run, or
\* the error or panic that ends the routing before any handler runs
resolve(has_model, has_client, registry, embed_ok, response) ==
    IF ~has_model THEN [result |-> "Panic", id |-> ""]
    ELSE IF ~embed_ok THEN [result |-> "EmbedError", id |-> ""]
    ELSE IF ~has_client THEN [result |-> "Panic", id |-> ""]
    ELSE IF ~response.ok THEN [result |-> "QueryError", id |-> ""]
    ELSE IF Len(response.result) = 0 THEN [result |-> "Panic", id |-> ""]
    ELSE IF get(response.result[1], "id") = Null THEN [result |-> "Panic", id |-> ""]
    ELSE IF get(response.result[1], "id").str \notin DOMAIN registry
    THEN [result |-> "CommandNotFound", id |-> ""]
    ELSE [result |-> "Found", id |-> get(response.result[1], "id").str]

\* run_command: resolve, then run the handler found
run_command(has_model, has_client, registry, ctx, embed_ok, response, resp, read) ==
    LET r == resolve(has_model, has_client, registry, embed_ok, response)
    IN  IF r.result = "Found"
        THEN [id |-> r.id] @@ handler(r.id, ctx, resp, read)
        ELSE [id |-> "", result |-> r.result, context |-> ctx, posted |-> FALSE, body |-> << >>]

(***************************************************************************)
(* Startup                                                                 *)
(***************************************************************************)
\* the step of initialize_commands that fails, if any
InitFailures == {"none", "model", "client", "create", "embed", "upsert"}

\* create_collection as the index answers it: a fault of the index or of the
\* transport, already-exists for a collection that is there, Ok otherwise
create_collection(idx, fault) ==
    IF fault THEN "Other" ELSE IF idx.exists THEN "AlreadyExists" ELSE "Ok"

\* the match with every error of create_collection returned, the
\* already-exists answer included
creation_fatal_strict(status) == status # "Ok"

\* the match on create_collection's result: Ok and the ResponseError whose
\* code is AlreadyExists let initialization go on, every other error is fatal
creation_fatal(status) == status \notin {"Ok", "AlreadyExists"}

\* initialize_commands: load the embedding model, build the index client,
\* ensure the collection (already-exists is success), register the built-ins,
\* embed their description texts and upsert one point per command
initialize_commands(idx, fail) ==
    LET status == create_collection(idx, fail = "create")
    IN  IF fail = "model"
        THEN [result |-> "ModelError", embedding_model |-> FALSE, qclient |-> FALSE,
              commands |-> NoCommands, index |-> idx, created |-> "none"]
        ELSE IF fail = "client"
        THEN [result |-> "ClientError", embedding_model |-> TRUE, qclient |-> FALSE,
              commands |-> NoCommands, index |-> idx, created |-> "none"]
        ELSE IF creation_fatal(status)
        THEN [result |-> "CreateError", embedding_model |-> TRUE, qclient |-> TRUE,
              commands |-> NoCommands, index |-> idx, created |-> status]
        ELSE IF fail = "embed"
        THEN [result |-> "EmbedError", embedding_model |-> TRUE, qclient |-> TRUE,
              commands |-> registered, index |-> [idx EXCEPT !.exists = TRUE],
              created |-> status]
        ELSE IF fail = "upsert"
        THEN [result |-> "UpsertError", embedding_model |-> TRUE, qclient |-> TRUE,
              commands |-> registered, index |-> [idx EXCEPT !.exists = TRUE],
              created |-> status]
        ELSE [result |-> "Ok", embedding_model |-> TRUE, qclient |-> TRUE,
              commands |-> registered,
              index |-> [exists |-> TRUE,
                         points |-> upsert(idx.points, points_of(registered))],
              created |-> status]

\* main with the Result of initialize_commands dropped: the loop starts anyway
after_initialize_ignore(res) == "Ready"

\* main's ? on initialize_commands: an error ends the process before the loop
after_initialize(res) == IF res = "Ok" THEN "Ready" ELSE "Exited"

(***************************************************************************)
(* State                                                                   *)
(***************************************************************************)
VARIABLES
    pc,               \* where main is: AwaitingSystemPrompt, Initializing,
                      \* Ready, Exited (main returned an error), Panicked
    context,          \* ChatContext.context, the message log
    embedding_model,  \* ChatContext.embedding_model is Some
    qclient,          \* ChatContext.qclient is Some
    commands,         \* ChatContext.commands, the registry
    index,            \* the external collection "commands"
    line,             \* the line the latest read_message call captured
    op,               \* the operation the latest step ran
    result,           \* the Result that operation returned
    request,          \* the request that operation posted to the backend
    input,            \* the InputType the latest read_message call returned
    created,          \* what create_collection answered in the latest step
    printed           \* the message main displayed for the latest turn

vars == <<pc, context, embedding_model, qclient, commands, index, line, op, result,
          request, input, created, printed>>

\* reply is what the backend answered: a kind of BackendResponses, or none,
\* and output the text of a well-formed answer
NoRequest == [posted |-> FALSE, body |-> << >>, reply |-> "none", output |-> << >>]

\* no read_message call has returned yet
NoInput == [type |-> "None", text |-> << >>]

\* the turn displayed no message of the log
NoDisplay == [shown |-> FALSE, text |-> << >>]

\* main's println of ctx.context[ctx.context.len() - 1].content
display_last(ctx) == [shown |-> TRUE, text |-> ctx[Len(ctx)].content]

Init ==
    /\ pc = "AwaitingSystemPrompt"
    /\ context = << >>
    /\ embedding_model = FALSE
    /\ qclient = FALSE
    /\ commands = NoCommands
    /\ index \in InitialIndexes
    /\ line = << >>
    /\ op = "none"
    /\ result = "none"
    /\ request = NoRequest
    /\ input = NoInput
    /\ created = "none"
    /\ printed = NoDisplay

(***************************************************************************)
(* main                                                                    *)
(***************************************************************************)
\* main before the loop: the first captured input, whatever its type, seeds
\* the system prompt of ChatContext::new
Start ==
    /\ pc = "AwaitingSystemPrompt"
    /\ \E read \in ReadResults :
        IF read.ok
        THEN /\ context' = ChatContext_new(into_string(Classify(read.line)))
             /\ line' = read.line
             /\ input' = Classify(read.line)
             /\ pc' = "Initializing"
             /\ op' = "new"
             /\ result' = "Ok"
        ELSE /\ pc' = "Exited"
             /\ op' = "read"
             /\ result' = "IoError"
             /\ UNCHANGED <<context, line, input>>
    /\ UNCHANGED <<embedding_model, qclient, commands, index, request, created, printed>>

\* main: ctx.initialize_commands().await?
InitializeCommands ==
    /\ pc = "Initializing"
    /\ \E fail \in InitFailures :
        LET out == initialize_commands(index, fail)
        IN  /\ embedding_model' = out.embedding_model
            /\ qclient' = out.qclient
            /\ commands' = out.commands
            /\ index' = out.index
            /\ result' = out.result
            /\ created' = out.created
            /\ pc' = after_initialize(out.result)
    /\ op' = "initialize_commands"
    /\ UNCHANGED <<context, line, request, input, printed>>

\* what the embedding provider and the index answer to one run_command: the
\* embedding fails and no query is made, or it succeeds and the query answers
RoutingInputs(idx) ==
    {[embed_ok |-> FALSE, response |-> [ok |-> FALSE, result |-> << >>]]}
        \cup {[embed_ok |-> TRUE, response |-> r] : r \in QueryResponses(idx)}

\* the backend is reached only by retry, and a further line is read only by
\* hint and system: the inputs that the command resolved to can consume
BackendInputs(id) ==
    IF id = "retry" THEN BackendResponses ELSE {[kind |-> "unreachable", output |-> << >>]}

ReadInputs(id) ==
    IF id \in {"hint", "system"} THEN ReadResults ELSE {[ok |-> FALSE, line |-> << >>]}

\* the loop: read_message()? fails and main returns the error
ReadFails ==
    /\ pc = "Ready"
    /\ pc' = "Exited"
    /\ op' = "read"
    /\ result' = "IoError"
    /\ request' = NoRequest
    /\ printed' = NoDisplay
    /\ created' = "none"
    /\ UNCHANGED <<context, embedding_model, qclient, commands, index, line, input>>

\* the loop, InputType::Prompt: ctx.send_user_message(prompt)? and the print
\* of the last message; an error leaves main through the ? operator
Prompt ==
    /\ pc = "Ready"
    /\ Len(context) + 2 <= MaxMsgs
    /\ \E l \in Lines, resp \in BackendResponses :
        /\ Classify(l).type = "Prompt"
        /\ LET out == send_user_message(context, Classify(l).text, resp)
           IN  /\ context' = out.context
               /\ result' = out.result
               /\ request' = [posted |-> out.posted, body |-> out.body,
                              reply |-> resp.kind, output |-> resp.output]
               /\ pc' = IF out.result = "Ok" THEN "Ready" ELSE "Exited"
               /\ printed' = IF out.result = "Ok"
                             THEN display_last(out.context) ELSE NoDisplay
        /\ line' = l
        /\ input' = Classify(l)
    /\ op' = "prompt"
    /\ created' = "none"
    /\ UNCHANGED <<embedding_model, qclient, commands, index>>

\* the loop, InputType::Command: ctx.run_command(cmd).await, whose error is
\* printed and whose panic ends the process
RunCommand ==
    /\ pc = "Ready"
    /\ \E l \in Lines, routing \in RoutingInputs(index) :
        /\ Classify(l).type = "Command"
        /\ LET embed_ok == routing.embed_ok
               response == routing.response
               id == resolve(embedding_model, qclient, commands, embed_ok, response).id
           IN  \E resp \in BackendInputs(id), read \in ReadInputs(id) :
                LET out == run_command(embedding_model, qclient, commands, context,
                                       embed_ok, response, resp, read)
                IN  /\ Len(out.context) <= MaxMsgs
                    /\ context' = out.context
                    /\ result' = out.result
                    /\ request' = [posted |-> out.posted, body |-> out.body,
                                   reply |-> IF out.posted THEN resp.kind ELSE "none",
                                   output |-> IF out.posted THEN resp.output ELSE << >>]
                    /\ op' = IF out.id = "" THEN "route" ELSE out.id
                    /\ pc' = IF out.result = "Panic" THEN "Panicked" ELSE "Ready"
                    /\ line' = IF out.id \in {"hint", "system"} /\ read.ok
                               THEN read.line ELSE l
                    /\ input' = IF out.id \in {"hint", "system"} /\ read.ok
                                THEN Classify(read.line) ELSE Classify(l)
                    /\ commands' = registry_after(commands, out.id)
    /\ printed' = NoDisplay
    /\ created' = "none"
    /\ UNCHANGED <<embedding_model, qclient, index>>

Next ==
    \/ Start
    \/ InitializeCommands
    \/ ReadFails
    \/ Prompt
    \/ RunCommand

Spec == Init /\ [][Next]_vars

(***************************************************************************)
(* read_message, key event by key event                                    *)
(***************************************************************************)
\* the characters a KeyCode::Char event carries
CharKeys == {"/", "a"}

\* one call of read_message, before its first event; the session is not
\* touched while the line is read
ReadInit ==
    /\ pc = "Reading"
    /\ line = << >>
    /\ input = NoInput
    /\ printed = NoDisplay
    /\ op = "read"
    /\ result = "none"
    /\ context = << >>
    /\ embedding_model = FALSE
    /\ qclient = FALSE
    /\ commands = NoCommands
    /\ index = [exists |-> FALSE, points |-> NoPoints]
    /\ request = NoRequest
    /\ created = "none"

\* KeyCode::Char(c): line.push(c)
KeyChar ==
    /\ pc = "Reading"
    /\ Len(line) < MaxLen
    /\ \E c \in CharKeys : line' = Append(line, c)
    /\ UNCHANGED <<pc, context, embedding_model, qclient, commands, index, op, result,
                   request, input, created, printed>>

\* KeyCode::Enter without ALT: line.push('\n')
KeyEnter ==
    /\ pc = "Reading"
    /\ Len(line) < MaxLen
    /\ line' = Append(line, "\n")
    /\ UNCHANGED <<pc, context, embedding_model, qclient, commands, index, op, result,
                   request, input, created, printed>>

\* any other key: "Unknown key" is printed and the line is as it was
KeyOther ==
    /\ pc = "Reading"
    /\ printed' = [shown |-> TRUE, text |-> <<"Unknown key">>]
    /\ UNCHANGED <<pc, context, embedding_model, qclient, commands, index, line, op,
                   result, request, input, created>>

\* Enter with ALT breaks the loop, an event that is no key event ends it:
\* the line is classified and returned
EndOfLine ==
    /\ pc = "Reading"
    /\ pc' = "Read"
    /\ input' = Classify(line)
    /\ result' = "Ok"
    /\ UNCHANGED <<context, embedding_model, qclient, commands, index, line, op,
                   request, created, printed>>

\* event::read()? fails: read_message returns the error
ReadError ==
    /\ pc = "Reading"
    /\ pc' = "Failed"
    /\ result' = "IoError"
    /\ UNCHANGED <<context, embedding_model, qclient, commands, index, line, op,
                   request, input, created, printed>>

ReadNext ==
    \/ KeyChar
    \/ KeyEnter
    \/ KeyOther
    \/ EndOfLine
    \/ ReadError

ReadSpec == ReadInit /\ [][ReadNext]_vars

(***************************************************************************)
(* Properties                                                              *)
(***************************************************************************)
\* the steps that are one turn of the session loop
CommandOps == {"route", "retry", "hint", "system"}

TurnOps == CommandOps \cup {"prompt"}

\* C1: in every state of the session loop the message log is non-empty and
\* its element 0 has role System.
C1_ElementZeroIsSystem ==
    pc = "Ready" => (Len(context) >= 1 /\ context[1].role = "System")

\* C2: send_context is atomic on failure: when the backend call fails or its
\* response cannot be parsed, the log after the call equals the log that was
\* posted, and an assistant message is appended to the posted log exactly on
\* a well-formed response.
C2_SendAtomicOnFailure ==
    request.posted =>
        /\ request.reply # "ok" =>
              (context = request.body /\ result = "NetworkError")
        /\ request.reply = "ok" =>
              (/\ result = "Ok"
               /\ \E o \in Outputs : context = Append(request.body, assistant(o)))

\* C2 witness: a send failed on a log holding more than the system prompt
C2_FailedSendReached ==
    /\ request.posted
    /\ request.reply \in {"unreachable", "malformed"}
    /\ Len(request.body) >= 2

\* C3: every error of a turn in Ready (a failed send, a router error, a
\* handler error) is non-fatal: after it the loop is still running.
C3_TurnErrorsNonFatal ==
    (op \in TurnOps /\ result \notin {"Ok", "Panic"}) => pc = "Ready"

\* C4: a Prompt turn whose backend call fails leaves the message log as it
\* was before the turn.
C4_FailedPromptLeavesLog ==
    [][(op' = "prompt" /\ result' = "NetworkError") => context' = context]_vars

\* C5: the first captured input becomes the content of the System message at
\* element 0 character for character, whatever its classification.
C5_FirstInputVerbatim ==
    op = "new" => (Len(context) = 1 /\ context[1] = system(line))

\* C6: retry's remove-last step on a log holding exactly the system-prompt
\* message reports an error and leaves the log unchanged.
C6_RemoveLastKeepsSystemPrompt ==
    [][(op' = "retry" /\ pc = "Ready" /\ Len(context) = 1 /\ context[1].role = "System")
          => (result' # "Ok" /\ context' = context)]_vars

\* C7: a command whose execution reports a failure leaves the message log
\* exactly as it was before the command was routed.
C7_FailedCommandLeavesLog ==
    [][(op' \in CommandOps /\ pc = "Ready" /\ result' \notin {"Ok", "Panic"})
          => context' = context]_vars

\* C8: routing that ends without a handler (an empty result list, a payload
\* id absent from the registry, an embedding or query failure) returns an
\* error value and leaves the session in Ready: it never faults.
C8_RouteNeverFaults ==
    op = "route" =>
        (result \in {"EmbedError", "QueryError", "CommandNotFound"} /\ pc = "Ready")

\* C9: the message retry removes from the end of the log has role Assistant
\* (stated for a log that holds more than the system prompt).
C9_RetryRemovesAssistant ==
    [][(op' = "retry" /\ pc = "Ready" /\ Len(context) >= 2)
          => context[Len(context)].role = "Assistant"]_vars

\* the messages of the log a step must leave in place: all of them, or all
\* but the last when the step is retry
Kept(ctx, step) == IF step = "retry" THEN Len(ctx) - 1 ELSE Len(ctx)

\* C10 as stated: across every step, every message that remains in the log
\* keeps its role and content, the log changing only at its end.
C10_MessagesImmutable ==
    [][/\ Len(context') >= Kept(context, op')
       /\ \A i \in 1..Kept(context, op') : context'[i] = context[i]]_vars

\* C10 as amended: across every step every message that remains in the log
\* keeps its role, and keeps its content unless it is element 0 and the step
\* is a successful system command, which changes nothing else; the log
\* changes otherwise only at its end.
C10_ImmutableButSystemPrompt ==
    [][/\ Len(context') >= Kept(context, op')
       /\ \A i \in 1..Kept(context, op') :
            /\ context'[i].role = context[i].role
            /\ \/ context'[i].content = context[i].content
               \/ i = 1 /\ op' = "system" /\ result' = "Ok"
       /\ op' = "system" => Len(context') = Len(context)]_vars

\* C10 witness: the system command overwrote the prompt of a log that holds
\* further messages
C10_SystemOverwroteReached ==
    /\ op = "system"
    /\ result = "Ok"
    /\ Len(context) >= 2
    /\ context[1].content = line

\* C11: when the line the hint or system handler reads begins with the
\* sentinel, the handler returns the nested-command error, which no other
\* failure returns, posts nothing, and leaves the message log unchanged.
C11_NestedCommandRejected ==
    [][(op' \in {"hint", "system"} /\ pc = "Ready" /\ result' # "IoError"
            /\ Len(line') >= 1 /\ line'[1] = "/")
          => (/\ result' = "NestedCommand"
              /\ context' = context
              /\ ~request'.posted
              /\ pc' = "Ready")]_vars

\* C11 witness: the hint handler read a line that begins with the sentinel
C11_NestedCommandReached ==
    /\ op = "hint"
    /\ input.type = "Command"
    /\ result = "NestedCommand"
    /\ Len(context) >= 2

\* C12: the captured line is classified Command, carrying the line without
\* its first character, exactly when it begins with "/", and Prompt, carrying
\* the line unchanged, otherwise; the empty line is Prompt of the empty text.
C12_Classification ==
    pc = "Read" =>
        /\ (Len(line) >= 1 /\ Head(line) = "/")
              => input = [type |-> "Command", text |-> Tail(line)]
        /\ ~(Len(line) >= 1 /\ Head(line) = "/")
              => input = [type |-> "Prompt", text |-> line]
        /\ line = << >> => input = [type |-> "Prompt", text |-> << >>]

\* C12 witness: a line of several characters that begins with the sentinel
\* was classified
C12_CommandLineClassified ==
    /\ pc = "Read"
    /\ Len(line) >= 3
    /\ Head(line) = "/"
    /\ input.type = "Command"

\* C13: once initialization has succeeded, for every position i of the
\* registry's iteration order the point with numeric id i + 1 (counting
\* positions from 0) holds the embedding of "{id}: {description}" of the
\* command at that position and that command's id and description as
\* payload, every command has its position, and a query whose first hit is
\* that point resolves to that command's id.
C13_IndexMatchesRegistry ==
    pc = "Ready" =>
        /\ Len(iter(commands)) = Cardinality(DOMAIN commands)
        /\ \A k \in DOMAIN commands :
              \E i \in 1..Len(iter(commands)) : iter(commands)[i] = commands[k]
        /\ \A i \in 1..Len(iter(commands)) :
              LET c == iter(commands)[i]
              IN  /\ i \in DOMAIN index.points
                  /\ index.points[i].vector = embed(<<c.id, ": ", c.description>>)
                  /\ index.points[i].payload = [id |-> c.id, description |-> c.description]
                  /\ resolve(TRUE, TRUE, commands, TRUE,
                             [ok |-> TRUE, result |-> <<index.points[i]>>])
                        = [result |-> "Found", id |-> c.id]

\* C13 witness: initialization has just succeeded and upserted the points
C13_InitializedReached ==
    /\ op = "initialize_commands"
    /\ result = "Ok"
    /\ pc = "Ready"
    /\ Cardinality(DOMAIN commands) = 3
    /\ {1, 2, 3} \subseteq DOMAIN index.points

\* the collection holds the points an earlier run of initialization upserted
Populated(idx) == idx.exists /\ {1, 2, 3} \subseteq DOMAIN idx.points

C15_RegistryReadOnly ==
    [][/\ pc = "Ready" => commands' = commands
       /\ \A k \in DOMAIN commands' : commands'[k].id = k]_vars

\* C15 witness: a command was looked up in the registry and its handler ran
C15_HandlerRanReached ==
    /\ pc = "Ready"
    /\ op \in {"retry", "hint", "system"}
    /\ result = "Ok"
    /\ DOMAIN commands = {"retry", "hint", "system"}

\* the errors initialize_commands returns
StartupErrors == {"ModelError", "ClientError", "CreateError", "EmbedError", "UpsertError"}

\* C16: a session is usable without the embedding provider and the index as
\* long as no command is executed: their being unavailable at startup does
\* not keep the session from reaching Ready.
C16_UsableWithoutIndex ==
    (op = "initialize_commands" /\ result \in StartupErrors) => pc = "Ready"

C18_PromptAppendsTwo ==
    [][(op' = "prompt" /\ pc = "Ready" /\ result' = "Ok") =>
          /\ Len(context') = Len(context) + 2
          /\ SubSeq(context', 1, Len(context)) = context
          /\ context'[Len(context) + 1] = [role |-> "User", content |-> line']
          /\ context'[Len(context) + 2]
                = [role |-> "Assistant", content |-> request'.output]
          /\ request'.reply = "ok"
          /\ request'.body = SubSeq(context', 1, Len(context) + 1)
          /\ printed' = [shown |-> TRUE, text |-> request'.output]]_vars

\* C18 witness: a Prompt turn with a non-empty text succeeded
C18_PromptSucceededReached ==
    /\ op = "prompt"
    /\ result = "Ok"
    /\ Len(context) = 3
    /\ context[2] = [role |-> "User", content |-> <<"a">>]
    /\ printed.shown

\* the handler of the step read a plain line: the read succeeded and the line
\* does not begin with the sentinel
PlainLineRead(res, l) == res # "IoError" /\ ~(Len(l) >= 1 /\ l[1] = "/")

\* C19: on a plain line, hint appends exactly one System message with that
\* text and changes nothing else; system replaces the content of element 0
\* by that text and leaves its role, the length of the log and every other
\* message unchanged; neither posts to the backend.
C19_LineCommandEffects ==
    [][/\ (op' = "hint" /\ pc = "Ready" /\ PlainLineRead(result', line')) =>
             /\ result' = "Ok"
             /\ context' = Append(context, [role |-> "System", content |-> line'])
             /\ ~request'.posted
       /\ (op' = "system" /\ pc = "Ready" /\ PlainLineRead(result', line')) =>
             /\ result' = "Ok"
             /\ Len(context') = Len(context)
             /\ Len(context) >= 1
             /\ context'[1] = [role |-> context[1].role, content |-> line']
             /\ \A i \in 2..Len(context) : context'[i] = context[i]
             /\ ~request'.posted]_vars

\* C20: no command handler faults in any reachable state: in particular the
\* system command always finds an element 0 to overwrite, and the session is
\* in Ready after the command.
C20_NoHandlerFaults ==
    op \in {"retry", "hint", "system"} => (result # "Panic" /\ pc = "Ready")

====
